---- MODULE Spec2Model ----
(***************************************************************************)
(* Connection provider of the Morrigan server (src/unnamed/part_001):      *)
(* two-phase admission (POST / issues a connection token, the WebSocket    *)
(* upgrade on /connect is gated by it), the registry of connection         *)
(* records in the shared store, heartbeat timers, cleanup, shutdown and    *)
(* the outbound send API.                                                  *)
(*                                                                         *)
(* Every async handler is cut at its awaits where another handler can      *)
(* observe or change shared state in between; the code that runs between   *)
(* two awaits is one action.  A store operation that the code issues       *)
(* without awaiting it (insertOne, replaceOne) takes effect in issue       *)
(* order, at the step that issues it.  The clock counts units of one       *)
(* connection-token lifetime (60 s).                                       *)
(***************************************************************************)
EXTENDS Integers, Sequences, FiniteSets, TLC

\* ------------------------------------------------------------------ bounds
MaxReqs == 3        \* POST / requests in one run
MaxSockets == 2     \* WebSocket upgrade attempts in one run
MaxTime == 2        \* last clock value
MaxBeats == 2       \* heartbeat ticks, and pongs, per socket
MaxSubs == 3        \* subscribers on one channel
MaxLen == 5         \* characters of a frame's type string
MaxFrames == 2      \* inbound frames per socket
MaxAttempts == 2    \* connection attempts of one Connection object

\* ------------------------------------------------------- program constants
TokenLifetime == 1  \* tokenLifetime: {seconds: 60}, one clock unit

Clients == {"cliX"}
Servers == {"srvA", "srvB"}
\* request.connection.remoteAddress: of a POST /, and of the n-th socket
AuthAddr == "10.0.0.1"
SockAddr(w) == IF w = 1 THEN "10.0.0.2" ELSE "10.0.0.3"
Reqs == 1..MaxReqs
Socks == 1..MaxSockets
ConnIds == 1..MaxReqs      \* uuidv4(): the n-th id minted is n

\* JavaScript values that are absent
Undefined == -1      \* a numeric field that is not set (timeout, disconnected, ...)
NoServer == "undefined"   \* record.serverId before any upgrade
NotConnected == -1   \* connected: false
BadToken == 0        \* an Origin header that no POST / ever returned

VARIABLES
    now,                     \* DateTime.now()
    connectionRecords,       \* collection morrigan.connections: id -> record
    connectionTokenRecords,  \* collection morrigan.connections.tokens: token ids
    tokenExp,                \* every token minted so far: token id -> expires
    sockets,                 \* per server: connection id -> socket
    heartbeats,              \* per server: connection id -> socket whose timer it is
    callbacks,               \* subscriber lists of the three channels
    auth,                    \* POST / handlers (ep_wsConnectAuth), by request
    ws,                      \* sockets and their ep_wsConnect handlers
    cleanups,                \* cleanup() calls suspended at their findOne
    evs,                     \* per socket: the observable events so far
    sent,                    \* the last send(): its arguments and result
    http,                    \* the last response of GET /:connectionId or POST /:connectionId/send
    down,                    \* servers whose onShutdown hook ran
    bus,                     \* the last call of on() or off(): arguments and outcome
    inbox,                   \* per socket: frames handled, outcome of the last one
    conn                     \* a client's Connection object, its requests and sockets

vars == <<now, connectionRecords, connectionTokenRecords, tokenExp, sockets,
          heartbeats, callbacks, auth, ws, cleanups, evs, sent, http, down, bus,
          inbox, conn>>

\* The variables of the server
serverVars == <<now, connectionRecords, connectionTokenRecords, tokenExp, sockets,
                heartbeats, callbacks, auth, ws, cleanups, evs, sent, http, down,
                bus, inbox>>

\* ----------------------------------------------------------------- records
\* The null a findOne returns when nothing matches.
NullRecord ==
    [id |-> 0, clientId |-> "", clientAddress |-> "", connected |-> NotConnected,
     alive |-> FALSE, open |-> FALSE, timeout |-> Undefined, tokenId |-> 0,
     serverId |-> NoServer, disconnected |-> Undefined, lastHearbeat |-> Undefined,
     extra |-> ""]

\* connectionRecords.findOne({id: id})
findById(id) ==
    IF id \in DOMAIN connectionRecords THEN connectionRecords[id] ELSE NullRecord

\* The documents connectionRecords.findOne({clientId: cid}) may return: any one
\* matching document (the store's natural order), or null when there is none.
findByClientId(cid) ==
    LET hits == {connectionRecords[i] : i \in {j \in DOMAIN connectionRecords :
                                                  connectionRecords[j].clientId = cid}}
    IN  IF hits = {} THEN {NullRecord} ELSE hits

\* collection.replaceOne({id: r.id}, r): no upsert, a missing document stays missing
replaceOne(store, r) ==
    IF r.id \in DOMAIN store THEN [store EXCEPT ![r.id] = r] ELSE store

\* collection.deleteOne({id: id})
deleteOne(store, id) ==
    [i \in DOMAIN store \ {id} |-> store[i]]

\* collection.insertOne(r)
insertOne(store, r) ==
    [i \in DOMAIN store \cup {r.id} |-> IF i = r.id THEN r ELSE store[i]]

\* --------------------------------------------------------- POST / (tokens)
\* c.open && DateTime.fromISO(c.timeout).diffNow().milliseconds >= 0
\* A missing timeout parses to an invalid DateTime whose difference is NaN, and
\* NaN >= 0 is false.
HasOpenConnectionStrict(c) ==
    c.open /\ c.timeout # Undefined /\ c.timeout - now > 0

HasOpenConnection(c) ==
    c.open /\ c.timeout # Undefined /\ c.timeout - now >= 0

\* coreEnv.providers.client.verifyToken(idtoken): the identity provider
IdentityOf(idtoken) ==
    IF idtoken \in Clients THEN idtoken ELSE ""

IdleAuth == [pc |-> "idle", idtoken |-> "", client |-> "", c |-> NullRecord,
             res |-> <<>>, newId |-> 0]

\* ep_wsConnectAuth up to its lookup being issued: the Authorization header is
\* read, a missing one is answered 400 (and the handler goes on), the identity
\* token is verified and a failure is answered 403.
AuthStart(q, idtoken) ==
    /\ auth[q].pc = "idle"
    /\ \A p \in Reqs : p < q => auth[p].pc # "idle"
    /\ LET res0 == IF idtoken = "none" THEN <<400>> ELSE <<>>
           cid == IdentityOf(idtoken)
       IN  auth' = [auth EXCEPT ![q] =
                IF cid = ""
                THEN [@ EXCEPT !.pc = "done", !.idtoken = idtoken,
                               !.res = Append(res0, 403)]
                ELSE [@ EXCEPT !.pc = "lookup", !.idtoken = idtoken,
                               !.client = cid, !.res = res0]]
    /\ UNCHANGED <<now, connectionRecords, connectionTokenRecords, tokenExp, sockets,
                   heartbeats, callbacks, ws, cleanups, evs, sent, http, down,
                   bus, inbox, conn>>

\* The lookup by client id returns: an open connection is answered 400, an
\* inactive one is to be deleted, none goes straight to provisioning.
AuthLookup(q) ==
    /\ auth[q].pc = "lookup"
    /\ \E c \in findByClientId(auth[q].client) :
          auth' = [auth EXCEPT ![q] =
              IF c.id # 0 /\ HasOpenConnection(c)
              THEN [@ EXCEPT !.pc = "done", !.c = c, !.res = Append(@, 400)]
              ELSE IF c.id # 0
              THEN [@ EXCEPT !.pc = "delete", !.c = c]
              ELSE [@ EXCEPT !.pc = "issue", !.c = c]]
    /\ UNCHANGED <<now, connectionRecords, connectionTokenRecords, tokenExp, sockets,
                   heartbeats, callbacks, ws, cleanups, evs, sent, http, down,
                   bus, inbox, conn>>

\* The old connection and its token are removed.
AuthDelete(q) ==
    /\ auth[q].pc = "delete"
    /\ connectionRecords' = deleteOne(connectionRecords, auth[q].c.id)
    /\ connectionTokenRecords' = connectionTokenRecords \ {auth[q].c.tokenId}
    /\ auth' = [auth EXCEPT ![q].pc = "issue"]
    /\ UNCHANGED <<now, tokenExp, sockets, heartbeats, callbacks, ws, cleanups, evs,
                   sent, http, down,
                   bus, inbox, conn>>

\* The record ep_wsConnectAuth builds for a new connection
NewRecord(id, cid, addr, expires) ==
    [id |-> id, clientId |-> cid, clientAddress |-> addr, connected |-> NotConnected,
     alive |-> FALSE, open |-> TRUE, timeout |-> expires, tokenId |-> id,
     serverId |-> NoServer, disconnected |-> Undefined, lastHearbeat |-> Undefined,
     extra |-> ""]

\* A new id is drawn, its token minted (the token record stored), the record
\* inserted and the token answered with 200.
AuthIssue(q) ==
    /\ auth[q].pc = "issue"
    /\ LET id == Cardinality(DOMAIN tokenExp) + 1
           expires == now + TokenLifetime
       IN  /\ id \in ConnIds
           /\ tokenExp' = [i \in DOMAIN tokenExp \cup {id} |->
                              IF i = id THEN expires ELSE tokenExp[i]]
           /\ connectionTokenRecords' = connectionTokenRecords \cup {id}
           /\ connectionRecords' =
                  insertOne(connectionRecords,
                            NewRecord(id, auth[q].client, AuthAddr, expires))
           /\ auth' = [auth EXCEPT ![q].pc = "done", ![q].newId = id,
                                   ![q].res = Append(@, 200)]
    /\ UNCHANGED <<now, sockets, heartbeats, callbacks, ws, cleanups, evs, sent, http, down,
                   bus, inbox, conn>>

\* ep_wsConnectAuth for the requests `reqs`, each carrying one of `idtokens`
ep_wsConnectAuth(reqs, idtokens) ==
    \E q \in reqs :
        \/ \E idtoken \in idtokens : AuthStart(q, idtoken)
        \/ AuthLookup(q)
        \/ AuthDelete(q)
        \/ AuthIssue(q)

\* The first token request of a run: there is no old connection to delete
FirstToken ==
    \/ \E idtoken \in Clients : AuthStart(1, idtoken)
    \/ AuthLookup(1)
    \/ AuthIssue(1)

\* -------------------------------------------------------------------- time
Tick ==
    /\ now < MaxTime
    /\ now' = now + 1
    /\ UNCHANGED <<connectionRecords, connectionTokenRecords, tokenExp, sockets,
                   heartbeats, callbacks, auth, ws, cleanups, evs, sent, http, down,
                   bus, inbox, conn>>

\* ------------------------------------------------------------- subscribers
\* The handlers registered on each channel, in registration order.
Registered == <<"h1", "h2">>

\* The events of invoking the first n subscribers of a channel
Invoked(channel, n) ==
    [i \in 1..n |-> [type |-> channel, h |-> callbacks[channel][i]]]

Ev(type) == <<[type |-> type, h |-> ""]>>

\* How a loop `for (let i in callbacks[channel]) callbacks[channel][i](...)` can
\* end: 0 when no subscriber throws, i when the i-th does (and ends the loop and
\* whatever called it, there being no try around the call).
LoopEnds(channel) == 0..Len(callbacks[channel])

Ran(channel, t) == IF t = 0 THEN Len(callbacks[channel]) ELSE t

\* The subscribers that write a field of their own on the record they are handed
Mutators == {"h3"}

\* The record object after the first n authenticate subscribers were called with
\* it: callbacks.authenticate[i](record, ws) hands over the handler's own object
Mutated(record, n) ==
    IF \E i \in 1..n : callbacks.authenticate[i] \in Mutators
    THEN [record EXCEPT !.extra = "h3"]
    ELSE record

\* ------------------------------------------------------ WS /connect (upgrade)
\* tokens.verifyToken(token): the token was minted by this generator, its record
\* is in the token collection and it has not expired.
verifyToken(token) ==
    /\ token \in DOMAIN tokenExp
    /\ token \in connectionTokenRecords
    /\ now <= tokenExp[token]

\* r.subject of a verified token: the id of the connection it was minted for
subject(token) == token

NoSocket == [state |-> "none", pc |-> "idle", token |-> BadToken, server |-> "",
             addr |-> "", record |-> NullRecord, timer |-> FALSE, wired |-> FALSE,
             beats |-> 0, pongs |-> 0, tick |-> "idle"]

WsUpgradeNoReturn(w, token, s) ==
    /\ ws[w].state = "none"
    /\ \A v \in Socks : v < w => ws[v].state # "none"
    /\ s \notin down
    /\ s = "srvA" \/ \E v \in Socks : ws[v].server = "srvA"
    /\ ws' = [ws EXCEPT ![w] =
          [@ EXCEPT !.state = IF verifyToken(token) THEN "open" ELSE "closing",
                    !.pc = "lookup", !.token = token, !.server = s,
                    !.addr = SockAddr(w)]]
    /\ UNCHANGED <<now, connectionRecords, connectionTokenRecords, tokenExp, sockets,
                   heartbeats, callbacks, auth, cleanups, evs, sent, http, down,
                   bus, inbox, conn>>

\* A client opens a WebSocket to /connect on server s with `token` as Origin;
\* ep_wsConnect verifies the token and closes the socket when it does not verify.
WsUpgrade(w, token, s) ==
    /\ ws[w].state = "none"
    /\ \A v \in Socks : v < w => ws[v].state # "none"
    /\ s \notin down
    /\ s = "srvA" \/ \E v \in Socks : ws[v].server = "srvA"
    /\ ws' = [ws EXCEPT ![w] =
          IF verifyToken(token)
          THEN [@ EXCEPT !.state = "open", !.pc = "lookup", !.token = token,
                         !.server = s, !.addr = SockAddr(w)]
          ELSE [@ EXCEPT !.state = "closing", !.pc = "rejected", !.token = token,
                         !.server = s, !.addr = SockAddr(w)]]
    /\ UNCHANGED <<now, connectionRecords, connectionTokenRecords, tokenExp, sockets,
                   heartbeats, callbacks, auth, cleanups, evs, sent, http, down,
                   bus, inbox, conn>>

PromotedNoServer(record, w) ==
    [record EXCEPT !.alive = TRUE, !.timeout = Undefined,
                   !.clientAddress = ws[w].addr, !.connected = now]

PromotedNotConnected(record, w) ==
    [record EXCEPT !.alive = TRUE, !.timeout = Undefined,
                   !.clientAddress = ws[w].addr, !.serverId = ws[w].server]

\* The record as the upgrade rewrites it
Promoted(record, w) ==
    [record EXCEPT !.alive = TRUE, !.timeout = Undefined,
                   !.clientAddress = ws[w].addr, !.connected = now,
                   !.serverId = ws[w].server]

\* table[s][id] = v
Put(table, s, id, v) ==
    [table EXCEPT ![s] = [i \in DOMAIN @ \cup {id} |-> IF i = id THEN v ELSE @[i]]]

\* delete table[s][id]
Drop(table, s, id) ==
    [table EXCEPT ![s] = [i \in DOMAIN @ \ {id} |-> @[i]]]

UpgradeEventsConnectFirst(w, ta, so, tc) ==
    LET evA == Invoked("authenticate", Ran("authenticate", ta))
        evC == Invoked("connect", Ran("connect", tc))
    IN  IF ta # 0 THEN evA
        ELSE IF tc # 0 THEN evA \o evC
        ELSE IF ws[w].state # "open" /\ so = "throws" THEN evA \o evC
        ELSE evA \o evC \o Ev("accepted")

\* What a socket's peer and the subscribers observe of an upgrade whose record
\* was found, in order: the authenticate subscribers, then (unless one threw)
\* the promotion frame handed to ws.send and the connect subscribers.
UpgradeEvents(w, ta, so, tc) ==
    LET evA == Invoked("authenticate", Ran("authenticate", ta))
        evC == Invoked("connect", Ran("connect", tc))
    IN  IF ta # 0 THEN evA
        ELSE IF ws[w].state # "open" /\ so = "throws" THEN evA
        ELSE evA \o Ev("accepted") \o evC

\* The rest of ep_wsConnect, from the record lookup to "is ready": there is no
\* await after the lookup.  The promoted record is handed to replaceOne before
\* the authenticate subscribers are called with the same object, which the
\* handler keeps (`held`) for its timer and listeners.  ta and tc say how the authenticate and connect loops
\* end, so what ws.send does on a socket that is no longer open (it throws or
\* drops the frame, depending on the ws release).
WsPromote(w, ta, so, tc) ==
    /\ ws[w].pc = "lookup"
    /\ LET found == findById(subject(ws[w].token))
           record == Promoted(found, w)
           held == Mutated(record, Ran("authenticate", ta))
           s == ws[w].server
           sendThrows == ws[w].state # "open" /\ so = "throws"
       IN  IF found.id = 0
           THEN \* record.alive = true on null: the handler ends with a TypeError
                /\ ws' = [ws EXCEPT ![w].pc = "failed"]
                /\ UNCHANGED <<connectionRecords, sockets, heartbeats, evs>>
           ELSE /\ connectionRecords' = replaceOne(connectionRecords, record)
                /\ sockets' = Put(sockets, s, record.id, w)
                /\ IF ta # 0
                   THEN /\ ws' = [ws EXCEPT ![w].pc = "failed", ![w].record = held]
                        /\ UNCHANGED heartbeats
                   ELSE /\ heartbeats' = Put(heartbeats, s, record.id, w)
                        /\ ws' = [ws EXCEPT ![w].record = held, ![w].timer = TRUE,
                                            ![w].wired = TRUE,
                                            ![w].pc = IF sendThrows \/ tc # 0
                                                      THEN "failed" ELSE "ready"]
                /\ evs' = [evs EXCEPT ![w] = @ \o UpgradeEvents(w, ta, so, tc)]
    /\ UNCHANGED <<now, connectionTokenRecords, tokenExp, callbacks, auth, cleanups,
                   sent, http, down,
                   bus, inbox, conn>>

\* ep_wsConnect for the sockets `socks`; `ends` are the ways a subscriber loop
\* may end
ep_wsConnect(socks, ends) ==
    \E w \in socks :
        \/ \E token \in DOMAIN tokenExp \cup {BadToken}, s \in Servers :
              WsUpgrade(w, token, s)
        \/ \E ta \in LoopEnds("authenticate") \cap ends, so \in {"throws", "drops"},
              tc \in LoopEnds("connect") \cap ends : WsPromote(w, ta, so, tc)

\* ---------------------------------------------------------------- heartbeat
\* One firing of the interval timer of socket w.  When the handler's copy of the
\* record is alive, the copy's flag is cleared and a ping is sent.  When it is
\* not (a missed heartbeat), the copy is written to the store and the callback
\* waits for the write before it goes on.
Heartbeat(w) ==
    /\ ws[w].timer
    /\ ws[w].tick = "idle"
    /\ ws[w].beats < MaxBeats
    /\ IF ws[w].record.alive
       THEN /\ ws' = [ws EXCEPT ![w].record.alive = FALSE, ![w].beats = @ + 1]
            /\ UNCHANGED connectionRecords
       ELSE /\ connectionRecords' = replaceOne(connectionRecords, ws[w].record)
            /\ ws' = [ws EXCEPT ![w].tick = "await", ![w].beats = @ + 1]
    /\ evs' = [evs EXCEPT ![w] = @ \o Ev("heartbeat")]
    /\ UNCHANGED <<now, connectionTokenRecords, tokenExp, sockets, heartbeats,
                   callbacks, auth, cleanups, sent, http, down,
                   bus, inbox, conn>>

\* The callback of a missed heartbeat after its write: the copy's flag is
\* cleared and a ping is sent.
HeartbeatResume(w) ==
    /\ ws[w].tick = "await"
    /\ ws' = [ws EXCEPT ![w].record.alive = FALSE, ![w].tick = "idle"]
    /\ UNCHANGED <<now, connectionRecords, connectionTokenRecords, tokenExp, sockets,
                   heartbeats, callbacks, auth, cleanups, evs, sent, http, down,
                   bus, inbox, conn>>

\* ws.on('pong'): a pong frame arrived, on a socket that is open or that the
\* server has started to close (frames are still received until the peer's
\* close frame)
Pong(w) ==
    /\ ws[w].wired
    /\ ws[w].state \in {"open", "closing"}
    /\ ws[w].pongs < MaxBeats
    /\ LET record == [ws[w].record EXCEPT !.lastHearbeat = now, !.alive = TRUE]
       IN  /\ ws' = [ws EXCEPT ![w].record = record, ![w].pongs = @ + 1]
           /\ connectionRecords' = replaceOne(connectionRecords, record)
    /\ evs' = [evs EXCEPT ![w] = @ \o Ev("pong")]
    /\ UNCHANGED <<now, connectionTokenRecords, tokenExp, sockets, heartbeats,
                   callbacks, auth, cleanups, sent, http, down,
                   bus, inbox, conn>>

\* ------------------------------------------------------------------ cleanup
\* cleanup(id) on server s up to its await: the socket leaves the table and is
\* closed when it is open.  The call is then suspended at its findOne; w is the
\* socket whose event log records the call.
cleanupStart(table, socks, s, id) ==
    LET has == id \in DOMAIN table[s]
        v == IF has THEN table[s][id] ELSE 0
        closed == has /\ socks[v].state = "open"
    IN  [sockets |-> Drop(table, s, id),
         ws |-> IF closed THEN [socks EXCEPT ![v].state = "closing"] ELSE socks,
         call |-> [srv |-> s, id |-> id, closed |-> closed]]

cleanupFinishStamps(k) ==
    LET record == findById(k.id)
        has == k.id \in DOMAIN heartbeats[k.srv]
    IN  /\ connectionRecords' =
              IF record.id = 0 THEN connectionRecords
              ELSE replaceOne(connectionRecords,
                      [record EXCEPT !.alive = FALSE, !.open = FALSE,
                                     !.disconnected = now])
        /\ ws' = IF record.id # 0 /\ has
                 THEN [ws EXCEPT ![heartbeats[k.srv][k.id]].timer = FALSE]
                 ELSE ws

\* cleanup(id) from its findOne on: the record, when there is one, is marked
\* closed and written back, and the timer found in heartbeats is cleared.
cleanupFinish(k) ==
    LET record == findById(k.id)
        has == k.id \in DOMAIN heartbeats[k.srv]
    IN  /\ connectionRecords' =
              IF record.id = 0 THEN connectionRecords
              ELSE replaceOne(connectionRecords,
                      [record EXCEPT !.alive = FALSE, !.open = FALSE,
                                     !.disconnected = IF k.closed THEN now ELSE @])
        /\ ws' = IF record.id # 0 /\ has
                 THEN [ws EXCEPT ![heartbeats[k.srv][k.id]].timer = FALSE]
                 ELSE ws

Cleanup ==
    \E k \in cleanups :
        /\ cleanupFinish(k)
        /\ cleanups' = cleanups \ {k}
        /\ evs' = IF k.w = 0 THEN evs ELSE [evs EXCEPT ![k.w] = @ \o Ev("cleanup")]
        /\ UNCHANGED <<now, connectionTokenRecords, tokenExp, sockets, heartbeats,
                       callbacks, auth, sent, http, down,
                       bus, inbox, conn>>

\* ws.on('close'): the socket's close event, after the client closed it or after
\* the closing handshake the server started.  Without the handler (the upgrade
\* has not wired it) the event is lost.  td says how the disconnect loop ends;
\* a subscriber that throws ends the handler before cleanup is called.
WsClose(w, td) ==
    /\ ws[w].state \in {"open", "closing"}
    /\ LET gone == [ws EXCEPT ![w].state = "closed"]
           s == ws[w].server
           id == ws[w].record.id
           c == cleanupStart(sockets, gone, s, id)
       IN  IF ~ws[w].wired
           THEN /\ ws' = gone
                /\ UNCHANGED <<sockets, cleanups, evs>>
           ELSE /\ evs' = [evs EXCEPT ![w] =
                              @ \o Invoked("disconnect", Ran("disconnect", td))]
                /\ IF td # 0
                   THEN /\ ws' = gone
                        /\ UNCHANGED <<sockets, cleanups>>
                   ELSE /\ ws' = c.ws
                        /\ sockets' = c.sockets
                        /\ cleanups' = cleanups \cup
                               {[srv |-> s, id |-> id, closed |-> c.call.closed, w |-> w]}
    /\ UNCHANGED <<now, connectionRecords, connectionTokenRecords, tokenExp,
                   heartbeats, callbacks, auth, sent, http, down,
                   bus, inbox, conn>>

\* ----------------------------------------------------------------- shutdown
\* The cleanup calls of onShutdown, one per key of sockets, none awaited: each
\* runs to its findOne.
RECURSIVE shutdownAll(_, _, _, _, _)
shutdownAll(table, socks, calls, s, ids) ==
    IF ids = {} THEN [sockets |-> table, ws |-> socks, cleanups |-> calls]
    ELSE LET id == CHOOSE i \in ids : \A j \in ids : i <= j
             c == cleanupStart(table, socks, s, id)
         IN  shutdownAll(c.sockets, c.ws,
                         calls \cup {[srv |-> s, id |-> id, closed |-> c.call.closed,
                                      w |-> table[s][id]]},
                         s, ids \ {id})

onShutdown(s) ==
    /\ s \notin down
    /\ \E v \in Socks : ws[v].server = s
    /\ LET r == shutdownAll(sockets, ws, cleanups, s, DOMAIN sockets[s])
       IN  /\ sockets' = r.sockets
           /\ ws' = r.ws
           /\ cleanups' = r.cleanups
    /\ down' = down \cup {s}
    /\ UNCHANGED <<now, connectionRecords, connectionTokenRecords, tokenExp,
                   heartbeats, callbacks, auth, evs, sent, http,
                   bus, inbox, conn>>

\* --------------------------------------------------------------------- send
\* r.isAlive: no code of the provider writes a field of that name (the record's
\* flag is `alive`), so the read is undefined
isAlive(r) == IF "isAlive" \in DOMAIN r THEN r.isAlive ELSE FALSE

sendAnd(s, connectionId) ==
    LET r == findById(connectionId)
    IN  IF r.id = 0 THEN [status |-> "failed", to |-> 0]
        ELSE IF ~isAlive(r) /\ ~r.open THEN [status |-> "failed", to |-> 0]
        ELSE IF r.serverId # s THEN [status |-> "failed", to |-> 0]
        ELSE IF connectionId \in DOMAIN sockets[s]
             THEN [status |-> "success", to |-> sockets[s][connectionId]]
             ELSE [status |-> "threw", to |-> 0]

\* send(connectionId, message) on server s: its result, and the socket the frame
\* was handed to (0: none)
send(s, connectionId) ==
    LET r == findById(connectionId)
    IN  IF r.id = 0 THEN [status |-> "failed", to |-> 0]
        ELSE IF ~isAlive(r) \/ ~r.open THEN [status |-> "failed", to |-> 0]
        ELSE IF r.serverId # s THEN [status |-> "failed", to |-> 0]
        ELSE IF connectionId \in DOMAIN sockets[s]
             THEN [status |-> "success", to |-> sockets[s][connectionId]]
             ELSE [status |-> "threw", to |-> 0]

Send(s, connectionId) ==
    /\ sent' = [srv |-> s, id |-> connectionId] @@ send(s, connectionId)
    /\ UNCHANGED <<now, connectionRecords, connectionTokenRecords, tokenExp, sockets,
                   heartbeats, callbacks, auth, ws, cleanups, evs, http, down,
                   bus, inbox, conn>>

\* ---------------------------------------------------------- HTTP endpoints
\* What a response body serialises: a connection record (by its id), the list of
\* all records (n of them), a {status, reason} result, a Promise, or nothing.
Body(kind, id, status, n) == [kind |-> kind, id |-> id, status |-> status, n |-> n]

\* The value of a call to an async function that is not awaited: a Promise.  It
\* is truthy, none of the result's fields can be read from it (status is
\* undefined), and JSON.stringify gives "{}".
Promise == Body("promise", 0, "undefined", 0)

NoResponse == [ep |-> "", srv |-> "", id |-> 0, code |-> 0, body |-> Body("", 0, "", 0)]

\* if (c): null and undefined are falsy, objects (a Promise too) are truthy
Truthy(v) == v.kind \notin {"null", "undefined"}

\* GET / and GET /:connectionId (connectionId 0: the route without the parameter)
ep_getConnections(connectionId) ==
    IF connectionId # 0
    THEN LET c == Promise    \* connectionRecords.findOne(...) without await
         IN  IF Truthy(c) THEN [code |-> 200, body |-> c]
             ELSE [code |-> 204, body |-> Body("empty", 0, "", 0)]
    ELSE [code |-> 200,
          body |-> Body("list", 0, "", Cardinality(DOMAIN connectionRecords))]

EpGetConnections(s, connectionId) ==
    /\ http' = [ep |-> "get", srv |-> s, id |-> connectionId] @@
               ep_getConnections(connectionId)
    /\ UNCHANGED <<now, connectionRecords, connectionTokenRecords, tokenExp, sockets,
                   heartbeats, callbacks, auth, ws, cleanups, evs, sent, down,
                   bus, inbox, conn>>

\* POST /:connectionId/send: `permitted` is whether the caller's functions
\* include connection.send, connectionId 0 a request without the parameter, body
\* "none" | "untyped" | "typed".  The last field says whether send was called.
ep_send(permitted, connectionId, body) ==
    IF ~permitted
    THEN [code |-> 403, body |-> Body("result", 0, "failed", 0), called |-> FALSE]
    ELSE IF connectionId = 0 \/ body = "none" \/ body = "untyped"
    THEN [code |-> 400, body |-> Body("result", 0, "failed", 0), called |-> FALSE]
    ELSE LET r == Promise    \* send(cid, msg) without await
         IN  [code |-> IF r.status = "success" THEN 200 ELSE 400, body |-> r,
              called |-> TRUE]

\* The request and, when it gets that far, the send() it started, which runs on
\* after the response was written.
EpSend(s, permitted, connectionId, body) ==
    LET r == ep_send(permitted, connectionId, body)
    IN  /\ http' = [ep |-> "send", srv |-> s, id |-> connectionId,
                    code |-> r.code, body |-> r.body]
        /\ sent' = IF r.called
                   THEN [srv |-> s, id |-> connectionId] @@ send(s, connectionId)
                   ELSE sent
        /\ UNCHANGED <<now, connectionRecords, connectionTokenRecords, tokenExp,
                       sockets, heartbeats, callbacks, auth, ws, cleanups, evs, down,
                       bus, inbox, conn>>

\* ----------------------------------------------------------------- on, off
\* Object.keys(callbacks)
Channels == {"authenticate", "connect", "disconnect"}

\* The handlers on() and off() are called with, and the event names: the three
\* channels and one that is none of them
Handlers == {"h1", "h3"}
EventNames == Channels \cup {"message"}

NoCall == [op |-> "", eventName |-> "", handler |-> "", threw |-> FALSE]

\* list.filter(v => v !== handler)
Without(list, handler) == SelectSeq(list, LAMBDA v : v # handler)

\* module.exports.on(eventName, handler): the subscriber lists after the call
on(eventName, handler) ==
    IF eventName \notin Channels THEN callbacks
    ELSE [callbacks EXCEPT ![eventName] = Append(@, handler)]

\* module.exports.off(eventName, handler): for a known channel the right-hand
\* side reads callback[eventName]; no `callback` is declared in the module, so
\* the read throws a ReferenceError before anything is assigned.
off(eventName, handler) ==
    [callbacks |-> callbacks, threw |-> eventName \in Channels]

On(eventName, handler) ==
    /\ eventName \in Channels => Len(callbacks[eventName]) < MaxSubs
    /\ callbacks' = on(eventName, handler)
    /\ bus' = [op |-> "on", eventName |-> eventName, handler |-> handler,
               threw |-> FALSE]
    /\ UNCHANGED <<now, connectionRecords, connectionTokenRecords, tokenExp, sockets,
                   heartbeats, auth, ws, cleanups, evs, sent, http, down, inbox, conn>>

Off(eventName, handler) ==
    /\ callbacks' = off(eventName, handler).callbacks
    /\ bus' = [op |-> "off", eventName |-> eventName, handler |-> handler,
               threw |-> off(eventName, handler).threw]
    /\ UNCHANGED <<now, connectionRecords, connectionTokenRecords, tokenExp, sockets,
                   heartbeats, auth, ws, cleanups, evs, sent, http, down, inbox, conn>>

\* ------------------------------------------------------- message dispatcher
\* The characters of a type string: "p" stands for the characters of the class
\* [A-z0-9\-_], "!" for the characters outside it other than the dot
WordChars == {"p"}
Alphabet == WordChars \cup {".", "!"}
Strings == UNION {[1..n -> Alphabet] : n \in 0..MaxLen}

\* msg.type: no such property, a number (0 or another), or a string
Types ==
    {[kind |-> "absent", n |-> 0, text |-> <<>>]}
    \cup {[kind |-> "number", n |-> n, text |-> <<>>] : n \in {0, 5}}
    \cup {[kind |-> "string", n |-> 0, text |-> t] : t \in Strings}

\* An inbound frame by what JSON.parse makes of it: a SyntaxError, null, a
\* primitive (number, string, boolean) or an object with its type property
Frames ==
    {[json |-> j, type |-> [kind |-> "absent", n |-> 0, text |-> <<>>]] :
        j \in {"invalid", "null", "primitive"}}
    \cup {[json |-> "object", type |-> t] : t \in Types}

\* !msg.type
Falsy(type) ==
    \/ type.kind = "absent"
    \/ type.kind = "number" /\ type.n = 0
    \/ type.kind = "string" /\ type.text = <<>>

\* coreEnv.providers, each provider with its messages table: provider "p"
\* handles the messages "p" and "p.p", provider "pp" handles none
providers ==
    [i \in {<<"p">>, <<"p", "p">>} |->
        IF i = <<"p">>
        THEN [messages |-> [j \in {<<"p">>, <<"p", ".", "p">>} |->
                               IF j = <<"p">> THEN "hState" ELSE "hSub"]]
        ELSE [messages |-> <<>>]]

CoreEnv == "coreEnv"

NoMatch == [matched |-> FALSE, provider |-> <<>>, message |-> <<>>]

matchLastDot(text) ==
    LET dots == {i \in DOMAIN text : text[i] = "."}
        d == IF dots = {} THEN 0 ELSE CHOOSE i \in dots : \A j \in dots : j <= i
    IN  IF /\ d > 1
           /\ d < Len(text)
           /\ \A i \in DOMAIN text : text[i] \in WordChars \cup {"."}
        THEN [matched |-> TRUE, provider |-> SubSeq(text, 1, d - 1),
              message |-> SubSeq(text, d + 1, Len(text))]
        ELSE NoMatch

\* type.match(/^(?<provider>[A-z0-9\-_]+)\.(?<message>[A-z0-9\-_.]+)$/): the
\* provider group holds no dot, so the dot the pattern matches is the first one
\* of the string; the message group is what follows it and may hold dots.
match(text) ==
    LET dots == {i \in DOMAIN text : text[i] = "."}
        d == IF dots = {} THEN 0 ELSE CHOOSE i \in dots : \A j \in dots : i <= j
    IN  IF /\ d > 1
           /\ d < Len(text)
           /\ \A i \in 1..(d - 1) : text[i] \in WordChars
           /\ \A i \in (d + 1)..Len(text) : text[i] \in WordChars \cup {"."}
        THEN [matched |-> TRUE, provider |-> SubSeq(text, 1, d - 1),
              message |-> SubSeq(text, d + 1, Len(text))]
        ELSE NoMatch

\* What one run of the 'message' listener does: the handler calls it makes,
\* whether an exception left the listener, whether one was caught in it
Outcome(calls, escaped, caught) ==
    [calls |-> calls, escaped |-> escaped, caught |-> caught]

Dropped == Outcome(<<>>, FALSE, FALSE)
Escaped == Outcome(<<>>, TRUE, FALSE)

\* h(msg, ws, record, coreEnv)
invoke(h, msg, w) == [h |-> h, args |-> <<msg, w, ws[w].record, CoreEnv>>]

dispatchNoCatch(w, frame, throws) ==
    IF frame.json = "invalid" THEN Dropped
    ELSE IF frame.json = "null" THEN Escaped
    ELSE IF frame.json = "primitive" \/ Falsy(frame.type) THEN Dropped
    ELSE IF frame.type.kind # "string" THEN Escaped
    ELSE LET m == match(frame.type.text)
         IN  IF ~m.matched THEN Dropped
             ELSE IF m.provider \notin DOMAIN providers THEN Dropped
             ELSE IF m.message \notin DOMAIN providers[m.provider].messages
                  THEN Dropped
             ELSE Outcome(<<invoke(providers[m.provider].messages[m.message],
                                   frame, w)>>, throws, FALSE)

\* ws.on('message') for one frame; `throws` says whether the handler, when one
\* is called, throws.  A frame that is not JSON is dropped in the first catch; on
\* a parsed null the read of msg.type throws, and on a type that is truthy and no
\* string msg.type.match is no function: both are outside any try.
dispatch(w, frame, throws) ==
    IF frame.json = "invalid" THEN Dropped
    ELSE IF frame.json = "null" THEN Escaped
    ELSE IF frame.json = "primitive" \/ Falsy(frame.type) THEN Dropped
    ELSE IF frame.type.kind # "string" THEN Escaped
    ELSE LET m == match(frame.type.text)
         IN  IF ~m.matched THEN Dropped
             ELSE IF m.provider \notin DOMAIN providers THEN Dropped
             ELSE IF m.message \notin DOMAIN providers[m.provider].messages
                  THEN Dropped
             ELSE Outcome(<<invoke(providers[m.provider].messages[m.message],
                                   frame, w)>>, FALSE, throws)

\* How a listener run ended
Kind(o) ==
    IF o.escaped THEN "escaped"
    ELSE IF o.caught THEN "caught"
    ELSE IF o.calls # <<>> THEN "delivered"
    ELSE "dropped"

\* No frame is waiting for the listener
NoFrame == [json |-> "", type |-> [kind |-> "absent", n |-> 0, text |-> <<>>]]

EmptyInbox == [n |-> 0, prev |-> "", last |-> Dropped, frame |-> NoFrame]

\* The peer of socket w sends a frame; it is received and waits for the
\* 'message' event to be emitted
Frame(w, frame) ==
    /\ ws[w].wired
    /\ ws[w].state = "open"
    /\ inbox[w].frame = NoFrame
    /\ inbox[w].n < MaxFrames
    /\ inbox' = [inbox EXCEPT ![w].frame = frame]
    /\ UNCHANGED <<now, connectionRecords, connectionTokenRecords, tokenExp, sockets,
                   heartbeats, callbacks, auth, ws, cleanups, evs, sent, http, down,
                   bus, conn>>

\* The 'message' listener of socket w runs on the frame received
Message(w, throws) ==
    /\ ws[w].wired
    /\ ws[w].state = "open"
    /\ inbox[w].frame # NoFrame
    /\ inbox' = [inbox EXCEPT ![w] =
                    [n |-> @.n + 1,
                     prev |-> IF @.n = 0 THEN "" ELSE Kind(@.last),
                     last |-> dispatch(w, @.frame, throws),
                     frame |-> NoFrame]]
    /\ UNCHANGED <<now, connectionRecords, connectionTokenRecords, tokenExp, sockets,
                   heartbeats, callbacks, auth, ws, cleanups, evs, sent, http, down,
                   bus, conn>>

\* --------------------------------------------------- client: Connection.js
\* The settings a Connection can be constructed with: none, or alwaysReconnect
Settings == {"none", "reconnect", "once"}

Attempts == 1..MaxAttempts

\* A WebSocket of the connector that was not created yet: its readyState, the
\* subscriber calls made for it and the frames sent on it
NoClientSocket == [state |-> "none", calls |-> <<>>, frames |-> <<>>]

\* new Connection(token, reportUrl, log, settings): no socket, no request, no
\* timer; alwaysReconnect is false unless the settings say otherwise, and
\* nothing assigns reconnectIntervalSeconds.  The k-th connect() makes request k,
\* whose answer may create socket k.
Connection(settings) ==
    [alwaysReconnect |-> settings = "reconnect",
     reconnectIntervalSeconds |-> Undefined,
     ws |-> 0,
     handlers |-> [connect |-> Registered, disconnect |-> Registered],
     reqs |-> [k \in Attempts |-> [state |-> "none", status |-> 0]],
     socks |-> [k \in Attempts |-> NoClientSocket],
     timers |-> <<>>,
     last |-> ""]

\* The delay setTimeout takes from seconds * 1000: a number as it is, and 1 ms
\* for the NaN that undefined * 1000 is
Delay(seconds) == IF seconds = Undefined THEN 1 ELSE seconds * 1000

\* The calls of the subscribers of a channel, each in its own try/catch: t is
\* the one that throws (0 for none), `via` is the caller
Calls(c, channel, t, via) ==
    [i \in 1..Len(c.handlers[channel]) |->
        [channel |-> channel, h |-> c.handlers[channel][i], via |-> via,
         threw |-> i = t]]

\* this.connect(): a token request is sent
connect(c) ==
    LET r == CHOOSE k \in Attempts :
                 /\ c.reqs[k].state = "none"
                 /\ \A j \in Attempts : j < k => c.reqs[j].state # "none"
    IN  [c EXCEPT !.reqs[r].state = "sent"]

responseAnyStatus(c, r, status, chunk) ==
    LET d == [c EXCEPT !.reqs[r] = [state |-> "done", status |-> status]]
    IN  IF chunk # "token" THEN d
        ELSE [d EXCEPT !.ws = r, !.socks[r].state = "connecting"]

\* The 'data' listener of the response to request r: a status other than 200
\* and a chunk that does not parse end the attempt; otherwise the WebSocket is
\* created with the token as origin and becomes _state.ws
response(c, r, status, chunk) ==
    LET d == [c EXCEPT !.reqs[r] = [state |-> "done", status |-> status]]
    IN  IF status # 200 \/ chunk # "token" THEN d
        ELSE [d EXCEPT !.ws = r, !.socks[r].state = "connecting"]

\* The 'close' listener of socket k: disconnect subscribers, then the reconnect
\* timer when alwaysReconnect is set
close(c, k, t) ==
    LET d == [c EXCEPT !.socks[k].state = "closed",
                       !.socks[k].calls = @ \o Calls(c, "disconnect", t, "close")]
    IN  IF c.alwaysReconnect
        THEN [d EXCEPT !.timers = Append(@, Delay(c.reconnectIntervalSeconds))]
        ELSE d

\* this.disconnect(e)
disconnect(c, e, t) ==
    IF c.ws = 0 THEN c
    ELSE LET d == [c EXCEPT !.alwaysReconnect = FALSE]
         IN  IF c.socks[c.ws].state # "open" THEN d
             ELSE [d EXCEPT
                     !.socks[c.ws].frames =
                         Append(@, [type |-> "client.state", state |-> <<"stopped", e>>]),
                     !.socks[c.ws].state = "closing",
                     !.socks[c.ws].calls =
                         @ \o Calls(c, "disconnect", t, "disconnect")]

\* The application calls connect()
Connect ==
    /\ \E k \in Attempts : conn.reqs[k].state = "none"
    /\ conn' = [connect(conn) EXCEPT !.last = "connect"]
    /\ UNCHANGED serverVars

\* The token request r is answered
Response(r, status, chunk) ==
    /\ conn.reqs[r].state = "sent"
    /\ conn' = response(conn, r, status, chunk)
    /\ UNCHANGED serverVars

\* Socket k opens: the connect subscribers are called
Open(k, t) ==
    /\ conn.socks[k].state = "connecting"
    /\ conn' = [conn EXCEPT !.socks[k].state = "open",
                            !.socks[k].calls = @ \o Calls(conn, "connect", t, "open")]
    /\ UNCHANGED serverVars

\* The close event of socket k: the server closed it, the connection failed or
\* the closing handshake that close() started has ended
Close(k, t) ==
    /\ conn.socks[k].state \in {"connecting", "open", "closing"}
    /\ conn' = close(conn, k, t)
    /\ UNCHANGED serverVars

\* A reconnect timer fires: nextConnectionAttempt is reset and connect() called
Reconnect ==
    /\ conn.timers # <<>>
    /\ \E k \in Attempts : conn.reqs[k].state = "none"
    /\ conn' = connect([conn EXCEPT !.timers = Tail(@)])
    /\ UNCHANGED serverVars

\* The application calls disconnect(e)
Disconnect(e, t) ==
    /\ conn' = [disconnect(conn, e, t) EXCEPT !.last = "disconnect"]
    /\ UNCHANGED serverVars

\* ------------------------------------------------------------ specification
Init ==
    /\ now = 0
    /\ connectionRecords = <<>>
    /\ connectionTokenRecords = {}
    /\ tokenExp = <<>>
    /\ sockets = [s \in Servers |-> <<>>]
    /\ heartbeats = [s \in Servers |-> <<>>]
    /\ callbacks = [authenticate |-> Registered, connect |-> Registered,
                    disconnect |-> Registered]
    /\ auth = [q \in Reqs |-> IdleAuth]
    /\ ws = [w \in Socks |-> NoSocket]
    /\ cleanups = {}
    /\ evs = [w \in Socks |-> <<>>]
    /\ sent = [srv |-> "", id |-> 0, status |-> "", to |-> 0]
    /\ http = NoResponse
    /\ down = {}
    /\ bus = NoCall
    /\ inbox = [w \in Socks |-> EmptyInbox]
    /\ conn = Connection("none")

\* A Connection constructed with any of the settings, the server idle
InitConnection ==
    /\ \E settings \in Settings : conn = Connection(settings)
    /\ now = 0
    /\ connectionRecords = <<>>
    /\ connectionTokenRecords = {}
    /\ tokenExp = <<>>
    /\ sockets = [s \in Servers |-> <<>>]
    /\ heartbeats = [s \in Servers |-> <<>>]
    /\ callbacks = [authenticate |-> Registered, connect |-> Registered,
                    disconnect |-> Registered]
    /\ auth = [q \in Reqs |-> IdleAuth]
    /\ ws = [w \in Socks |-> NoSocket]
    /\ cleanups = {}
    /\ evs = [w \in Socks |-> <<>>]
    /\ sent = [srv |-> "", id |-> 0, status |-> "", to |-> 0]
    /\ http = NoResponse
    /\ down = {}
    /\ bus = NoCall
    /\ inbox = [w \in Socks |-> EmptyInbox]

\* What a connection goes through after its token was issued: upgrade, close
\* event, cleanup, for the sockets `socks`
Session(socks, ends) ==
    \/ ep_wsConnect(socks, ends)
    \/ \E w \in socks, td \in LoopEnds("disconnect") \cap ends : WsClose(w, td)
    \/ Cleanup

\* One token and one session, with everything that can happen to it: subscribers
\* that throw, heartbeats and pongs, close, cleanup, shutdown.
Next ==
    \/ FirstToken
    \/ Session({1}, 0..Len(Registered))
    \/ Heartbeat(1)
    \/ HeartbeatResume(1)
    \/ Pong(1)
    \/ \E s \in Servers : onShutdown(s)
    \/ Tick

Spec == Init /\ [][Next]_vars

\* Admission: concurrent token requests of known clients, against one session.
NextAdmission ==
    \/ ep_wsConnectAuth(Reqs, Clients)
    \/ Session({1}, {0})
    \/ Tick

SpecAdmission == Init /\ [][NextAdmission]_vars

\* Several sockets presenting the one token that was issued, on either server.
NextSockets ==
    \/ FirstToken
    \/ Session(Socks, {0})
    \/ \E s \in Servers : onShutdown(s)
    \/ Tick

SpecSockets == Init /\ [][NextSockets]_vars

\* The sender: one token and one session, send() called on either server.
NextSend ==
    \/ FirstToken
    \/ Session({1}, {0})
    \/ Heartbeat(1)
    \/ HeartbeatResume(1)
    \/ Pong(1)
    \/ \E s \in Servers, id \in ConnIds : Send(s, id)
    \/ Tick

SpecSend == Init /\ [][NextSend]_vars

\* One token and one session, and the two HTTP endpoints called at any time
NextHttp ==
    \/ FirstToken
    \/ Session({1}, {0})
    \/ Pong(1)
    \/ \E s \in Servers, id \in 0..1 : EpGetConnections(s, id)
    \/ \E s \in Servers, permitted \in BOOLEAN, id \in 0..1,
          body \in {"none", "untyped", "typed"} : EpSend(s, permitted, id, body)
    \/ Tick

SpecHttp == Init /\ [][NextHttp]_vars

\* Two token requests and one session that is closed by its client or by a
\* shutdown: a record can be deleted and replaced under a session, and cleaned
\* up twice.
NextCleanup ==
    \/ ep_wsConnectAuth({1, 2}, Clients)
    \/ Session({1}, {0})
    \/ Pong(1)
    \/ \E s \in Servers : onShutdown(s)
    \/ Tick

SpecCleanup == Init /\ [][NextCleanup]_vars

\* Two token requests and one session with its heartbeat: every writer of
\* connection records except shutdown.
NextRegistry ==
    \/ ep_wsConnectAuth({1, 2}, Clients)
    \/ Session({1}, {0})
    \/ Heartbeat(1)
    \/ HeartbeatResume(1)
    \/ Pong(1)
    \/ Tick

SpecRegistry == Init /\ [][NextRegistry]_vars

\* Several sockets presenting the one token, each with its heartbeat timer.
NextSocketBeats ==
    \/ FirstToken
    \/ Session(Socks, {0})
    \/ \E w \in Socks : Heartbeat(w) \/ HeartbeatResume(w)
    \/ Tick

SpecSocketBeats == Init /\ [][NextSocketBeats]_vars

\* The bus: subscribers added and removed around one session.
NextBus ==
    \/ FirstToken
    \/ Session({1}, {0})
    \/ \E eventName \in EventNames, handler \in Handlers :
          On(eventName, handler) \/ Off(eventName, handler)

SpecBus == Init /\ [][NextBus]_vars

\* The dispatcher: one session and the frames its client sends.
NextDispatch ==
    \/ FirstToken
    \/ Session({1}, {0})
    \/ \E frame \in Frames : Frame(1, frame)
    \/ \E throws \in BOOLEAN : Message(1, throws)

SpecDispatch == Init /\ [][NextDispatch]_vars

\* Token requests with and without an Authorization header, of known and
\* unknown clients, against one session.
NextRequests ==
    \/ ep_wsConnectAuth({1, 2}, Clients \cup {"none", "stranger"})
    \/ Session({1}, {0})
    \/ Tick

SpecRequests == Init /\ [][NextRequests]_vars

\* One session and its heartbeat, every handler and timer running on when it
\* can: what eventually becomes of a connection.
NextLive ==
    \/ FirstToken
    \/ Session({1}, {0})
    \/ Heartbeat(1)
    \/ HeartbeatResume(1)
    \/ Tick

SpecLive == Init /\ [][NextLive]_vars /\ WF_vars(NextLive)

\* One session with a subscriber on authenticate that writes on the record.
NextMutate ==
    \/ FirstToken
    \/ \E handler \in Mutators : On("authenticate", handler)
    \/ Session({1}, {0})
    \/ Heartbeat(1)
    \/ HeartbeatResume(1)
    \/ Pong(1)

SpecMutate == Init /\ [][NextMutate]_vars

\* The client connector: connect() and disconnect() called at any time, the
\* token requests answered and the sockets opened and closed by the server.
NextConnection ==
    \/ Connect
    \/ \E r \in Attempts, status \in {200, 400, 403}, chunk \in {"token", "garbage"} :
          Response(r, status, chunk)
    \/ \E k \in Attempts, t \in 0..Len(Registered) : Open(k, t)
    \/ \E k \in Attempts, t \in 0..Len(Registered) : Close(k, t)
    \/ Reconnect
    \/ \E t \in 0..Len(Registered) : Disconnect("user", t)

SpecConnection == InitConnection /\ [][NextConnection]_vars

\* =================================================================== claims
\* A record that is an issued, not yet upgraded connection whose token has not
\* timed out
IsOpenIssuance(c) ==
    /\ c.id # 0
    /\ c.open
    /\ c.connected = NotConnected
    /\ c.timeout # Undefined
    /\ c.timeout >= now

\* A record of a connected session: upgraded (connected set, timeout cleared)
\* and not cleaned up
IsConnectedSession(c) ==
    /\ c.id # 0
    /\ c.open
    /\ c.connected # NotConnected
    /\ c.timeout = Undefined

\* open and (connected or not timed out): what I1 and P2 count as a live record
IsLive(c) ==
    c.open /\ (c.connected # NotConnected \/ (c.timeout # Undefined /\ c.timeout > now))

\* A record that is stale (issued, never upgraded, timed out) or closed
IsStaleOrClosed(c) ==
    /\ c.id # 0
    /\ \/ ~c.open
       \/ (c.connected = NotConnected /\ c.timeout # Undefined /\ c.timeout < now)

RecordsOf(store, cid) == {i \in DOMAIN store : store[i].clientId = cid}

\* The step in which request q's lookup by client id returns
LookupReturns(q) == auth[q].pc = "lookup" /\ auth'[q].pc # "lookup"

\* The step in which request q provisions its new connection
Provisions(q) == auth[q].pc = "issue" /\ auth'[q].pc = "done"

\* C1: a token request whose lookup finds the client's connected session (open,
\* connected set, timeout cleared) is answered 400 and ends there: it deletes
\* nothing and provisions nothing.
C1_ConnectedClientRejected ==
    \A q \in Reqs :
        IsConnectedSession(auth[q].c) =>
            /\ auth[q].pc = "done"
            /\ auth[q].res = <<400>>
            /\ auth[q].newId = 0

\* C2: no two records of one client are both open and (connected or not yet
\* timed out).
C2_OneLiveRecordPerClient ==
    \A i \in DOMAIN connectionRecords, j \in DOMAIN connectionRecords :
        (i # j /\ connectionRecords[i].clientId = connectionRecords[j].clientId)
            => ~(IsLive(connectionRecords[i]) /\ IsLive(connectionRecords[j]))

\* C3: a token request whose lookup finds a record that is open, not connected
\* and whose timeout is at or after now is answered 400 and ends there, with
\* the record store, the token store and the minted tokens unchanged.
C3_OpenIssuanceRejected ==
    [][\A q \in Reqs :
          (LookupReturns(q) /\ IsOpenIssuance(auth'[q].c)) =>
              /\ auth'[q].pc = "done"
              /\ auth'[q].res = <<400>>
              /\ auth'[q].newId = 0
              /\ UNCHANGED <<connectionRecords, connectionTokenRecords, tokenExp>>]_vars

C3_Witness ==
    \E q \in Reqs :
        /\ auth[q].pc = "done"
        /\ auth[q].res = <<400>>
        /\ auth[q].c.id # 0
        /\ auth[q].c.open
        /\ auth[q].c.connected = NotConnected
        /\ auth[q].c.timeout = now

\* C4: a token request whose lookup found a stale or closed record has, when it
\* provisions, removed that record and its token, inserts one new record (fresh
\* id, connected false, alive false, open, the new token's id, timeout at the
\* token's expiry), answers 200, and leaves the client with exactly one record.
C4_StaleReplacedByOne ==
    [][\A q \in Reqs :
          (Provisions(q) /\ IsStaleOrClosed(auth[q].c)) =>
              LET id == auth'[q].newId
                  old == auth[q].c
              IN  /\ old.id \notin DOMAIN connectionRecords'
                  /\ old.tokenId \notin connectionTokenRecords'
                  /\ id \notin DOMAIN connectionRecords
                  /\ DOMAIN connectionRecords' = DOMAIN connectionRecords \cup {id}
                  /\ connectionRecords'[id].connected = NotConnected
                  /\ ~connectionRecords'[id].alive
                  /\ connectionRecords'[id].open
                  /\ connectionRecords'[id].tokenId \in connectionTokenRecords'
                  /\ connectionRecords'[id].tokenId \notin DOMAIN tokenExp
                  /\ connectionRecords'[id].timeout = tokenExp'[connectionRecords'[id].tokenId]
                  /\ auth'[q].res = <<200>>
                  /\ RecordsOf(connectionRecords', auth[q].client) = {id}]_vars

\* C5: an upgrade whose token does not verify closes the socket and changes
\* nothing else: no record, table entry, timer or event, then or later.
C5_RejectedUpgradeChangesNothing ==
    /\ [][\A w \in Socks :
             (ws[w].state = "none" /\ ws'[w].state # "none" /\ ~verifyToken(ws'[w].token))
                 => /\ ws'[w].pc = "rejected"
                    /\ ws'[w].state = "closing"
                    /\ UNCHANGED <<connectionRecords, connectionTokenRecords, sockets,
                                   heartbeats, evs, cleanups>>]_vars
    /\ [](\A w \in Socks :
             ws[w].pc = "rejected" =>
                 /\ ws[w].state \in {"closing", "closed"}
                 /\ ws[w].record = NullRecord
                 /\ ~ws[w].timer
                 /\ ~ws[w].wired
                 /\ evs[w] = <<>>
                 /\ \A s \in Servers : \A i \in DOMAIN sockets[s] : sockets[s][i] # w
                 /\ \A s \in Servers : \A i \in DOMAIN heartbeats[s] : heartbeats[s][i] # w)

\* An upgrade with a token that was minted but has expired was rejected, and the
\* record it names is as issued.
C5_Witness ==
    \E w \in Socks :
        /\ ws[w].pc = "rejected"
        /\ ws[w].state = "closed"
        /\ ws[w].token \in DOMAIN connectionRecords
        /\ connectionRecords[ws[w].token].connected = NotConnected

\* The step in which the upgrade of socket w gets its record lookup back
LookupDone(w) == ws[w].pc = "lookup" /\ ws'[w].pc # "lookup"

\* C6: after an upgrade whose token verified and whose record exists, the stored
\* record of the token's subject is alive, connected at the upgrade instant,
\* owned by this server, carries the socket's remote address and no timeout, and
\* the socket is in this server's table under that id.
C6_UpgradePromotesRecord ==
    [][\A w \in Socks :
          (LookupDone(w) /\ subject(ws[w].token) \in DOMAIN connectionRecords) =>
              LET id == subject(ws[w].token)
                  s == ws[w].server
              IN  /\ id \in DOMAIN connectionRecords'
                  /\ connectionRecords'[id].alive
                  /\ connectionRecords'[id].connected = now
                  /\ connectionRecords'[id].serverId = s
                  /\ connectionRecords'[id].clientAddress = SockAddr(w)
                  /\ connectionRecords'[id].timeout = Undefined
                  /\ id \in DOMAIN sockets'[s]
                  /\ sockets'[s][id] = w]_vars

\* A socket was promoted at a later instant than its token was issued and an
\* authenticate subscriber threw: the stored record is the promoted one.
C6_Witness ==
    \E w \in Socks :
        /\ ws[w].pc = "failed"
        /\ ws[w].record.id \in DOMAIN connectionRecords
        /\ connectionRecords[ws[w].record.id].connected = 1
        /\ connectionRecords[ws[w].record.id].serverId = ws[w].server
        /\ connectionRecords[ws[w].record.id].clientAddress # AuthAddr

Count(log, type) == Cardinality({i \in DOMAIN log : log[i].type = type})

\* C7: in the events of a connection, which come as authenticate, promotion
\* frame, connect, (message | pong | heartbeat)*, disconnect, cleanup, the
\* disconnect subscribers run before the cleanup, and no disconnect or heartbeat
\* follows a cleanup.
C7_EventOrder ==
    \A w \in Socks :
        \A j \in DOMAIN evs[w] :
            /\ evs[w][j].type = "cleanup" =>
                   \E i \in 1..(j - 1) : evs[w][i].type = "disconnect"
            /\ evs[w][j].type \in {"disconnect", "heartbeat"} =>
                   \A i \in 1..(j - 1) : evs[w][i].type # "cleanup"

\* C8: the promotion frame is sent at most once per upgrade, only after every
\* authenticate subscriber was invoked (in registration order), before any
\* connect subscriber is invoked, and exactly once in an upgrade that went
\* through.
C8_PromotionFrameOrder ==
    \A w \in Socks :
        LET log == evs[w]
            na == Len(callbacks.authenticate)
        IN  /\ Count(log, "accepted") <= 1
            /\ \A i \in DOMAIN log :
                   log[i].type = "accepted" =>
                       /\ i = na + 1
                       /\ \A k \in 1..na :
                              log[k] = [type |-> "authenticate",
                                        h |-> callbacks.authenticate[k]]
            /\ \A j \in DOMAIN log :
                   log[j].type = "connect" =>
                       \E i \in 1..(j - 1) : log[i].type = "accepted"
            /\ ws[w].pc = "ready" => Count(log, "accepted") = 1

\* An upgrade went through: every authenticate subscriber, the frame, every
\* connect subscriber.
C8_Witness ==
    /\ ws[1].pc = "ready"
    /\ Len(evs[1]) >= 5
    /\ evs[1][3].type = "accepted"
    /\ evs[1][5] = [type |-> "connect", h |-> "h2"]

\* A socket whose upgrade got as far as rewriting the record
WasPromoted(w) == ws[w].record.id # 0

\* C9: of the upgrades that present one token, at most one is promoted.
C9_TokenUsedOnce ==
    \A v \in Socks, w \in Socks :
        (v # w /\ ws[v].token = ws[w].token /\ ws[v].token # BadToken)
            => ~(WasPromoted(v) /\ WasPromoted(w))

\* The record is missing, closed, not alive or owned by another server
MustFail(s, id) ==
    LET r == findById(id)
    IN  r.id = 0 \/ ~r.open \/ ~r.alive \/ r.serverId # s

\* C10: send() answers failed and hands no frame to a socket when the record is
\* missing, closed, not alive or owned by another server.
C10_SendFailsWhenNotDeliverable ==
    [][\A s \in Servers, id \in ConnIds :
          (Send(s, id) /\ MustFail(s, id)) =>
              (sent'.status = "failed" /\ sent'.to = 0)]_vars

\* send() was called on the other server for a record that is open, alive and
\* owned by the server of its socket, and failed.
C10_Witness ==
    /\ sent.status = "failed"
    /\ sent.id \in DOMAIN connectionRecords
    /\ connectionRecords[sent.id].open
    /\ connectionRecords[sent.id].alive
    /\ connectionRecords[sent.id].serverId = "srvA"
    /\ sent.srv = "srvB"

\* The record exists, was promoted on server s, is open and alive, and its socket
\* is the open one registered under the id on s
Deliverable(s, id) ==
    LET r == findById(id)
    IN  /\ r.id # 0
        /\ r.connected # NotConnected
        /\ r.serverId = s
        /\ r.open
        /\ r.alive
        /\ id \in DOMAIN sockets[s]
        /\ ws[sockets[s][id]].state = "open"

\* C11: send() answers success and hands the frame to the socket registered for
\* the id whenever the record exists, was promoted on this server, is open and
\* is alive.
C11_SendSucceedsWhenDeliverable ==
    [][\A s \in Servers, id \in ConnIds :
          (Send(s, id) /\ Deliverable(s, id)) =>
              (sent'.status = "success" /\ sent'.to = sockets[s][id])]_vars

\* C12: a permitted POST /:connectionId/send with an id and a typed body is
\* answered 200 exactly when its send succeeds, and otherwise with a non-200
\* status whose body is send's failed result.
C12_SendResponseReflectsSend ==
    [][\A s \in Servers, id \in ConnIds :
          EpSend(s, TRUE, id, "typed") =>
              /\ (http'.code = 200) <=> (sent'.status = "success")
              /\ sent'.status # "success" =>
                     /\ http'.code # 200
                     /\ http'.body = Body("result", 0, sent'.status, 0)]_vars

\* C13: GET /:connectionId is answered 200 with the record when a record with
\* that id is in the store, and 204 with an empty body when there is none.
C13_GetBranchesOnLookup ==
    [][\A s \in Servers, id \in ConnIds :
          EpGetConnections(s, id) =>
              IF id \in DOMAIN connectionRecords
              THEN http'.code = 200 /\ http'.body = Body("record", id, "", 0)
              ELSE http'.code = 204 /\ http'.body = Body("empty", 0, "", 0)]_vars

\* The step in which the cleanup call k runs from its findOne to its end
Completes(k) == k \in cleanups /\ k \notin cleanups' /\ cleanupFinish(k)

\* C14: when cleanup(id) completes, the server's socket table has no entry for
\* id, its heartbeat table has no entry for id and no timer of id is running,
\* with or without a record; and a record of id, if any, is closed and not
\* alive.
C14_CleanupLeavesNothing ==
    [][\A k \in cleanups :
          Completes(k) =>
              /\ k.id \notin DOMAIN sockets'[k.srv]
              /\ k.id \notin DOMAIN heartbeats'[k.srv]
              /\ \A w \in Socks :
                     (ws'[w].server = k.srv /\ ws'[w].record.id = k.id) => ~ws'[w].timer
              /\ k.id \in DOMAIN connectionRecords' =>
                     /\ ~connectionRecords'[k.id].open
                     /\ ~connectionRecords'[k.id].alive]_vars

\* A cleanup of k's connection has completed before, and the record, if there
\* still is one, is closed as that call left it
RanBefore(k) ==
    /\ k.w # 0
    /\ Count(evs[k.w], "cleanup") >= 1
    /\ ~findById(k.id).open
    /\ ~findById(k.id).alive

\* C15: a cleanup(id) that runs after an earlier cleanup(id) completed, and so
\* finds no socket to close, leaves the stored records (disconnected included),
\* the socket tables and the heartbeat tables as they are; a cleanup(id) that
\* finds no record of id completes and leaves the store as it is.
C15_CleanupIdempotent ==
    [][\A k \in cleanups :
          Completes(k) =>
              /\ (RanBefore(k) /\ ~k.closed) =>
                     UNCHANGED <<connectionRecords, connectionTokenRecords, sockets,
                                 heartbeats>>
              /\ k.id \notin DOMAIN connectionRecords =>
                     /\ UNCHANGED <<connectionRecords, connectionTokenRecords>>
                     /\ cleanups' = cleanups \ {k}]_vars

\* A connection was cleaned up twice (by shutdown and by the close event that
\* followed) at different instants, and its record carries the first instant.
C15_Witness ==
    \E w \in Socks :
        /\ Count(evs[w], "cleanup") = 2
        /\ ws[w].record.id \in DOMAIN connectionRecords
        /\ connectionRecords[ws[w].record.id].disconnected # Undefined
        /\ connectionRecords[ws[w].record.id].disconnected < now
        /\ cleanups = {}

\* C16: once the socket of a promoted session has closed and its cleanup has
\* run, the stored record is closed, not alive and carries the instant of the
\* disconnect, whoever closed the socket.
C16_ClosedSessionRecord ==
    \A w \in Socks :
        ( /\ WasPromoted(w)
          /\ ws[w].state = "closed"
          /\ Count(evs[w], "cleanup") >= 1
          /\ \A k \in cleanups : k.w # w
          /\ ws[w].record.id \in DOMAIN connectionRecords )
        => /\ ~connectionRecords[ws[w].record.id].open
           /\ ~connectionRecords[ws[w].record.id].alive
           /\ connectionRecords[ws[w].record.id].disconnected # Undefined

\* C17: every stored record with connected = false is not alive and has no
\* serverId.
C17_NotConnectedNotAlive ==
    \A id \in DOMAIN connectionRecords :
        connectionRecords[id].connected = NotConnected =>
            /\ ~connectionRecords[id].alive
            /\ connectionRecords[id].serverId = NoServer

\* A record that was never upgraded is in the store next to a session that was
\* promoted, missed a heartbeat and answered one.
C17_Witness ==
    /\ \E id \in DOMAIN connectionRecords :
           connectionRecords[id].connected = NotConnected
    /\ \E w \in Socks :
           /\ WasPromoted(w)
           /\ ws[w].beats >= 2
           /\ ws[w].pongs >= 1

\* C18: for every stored record that is closed, no server's socket table holds
\* an open socket under its id and no heartbeat timer of its id is running.
C18_ClosedHasNoSocketNoTimer ==
    \A id \in DOMAIN connectionRecords :
        ~connectionRecords[id].open =>
            /\ \A s \in Servers :
                   id \in DOMAIN sockets[s] => ws[sockets[s][id]].state # "open"
            /\ \A w \in Socks : ws[w].record.id = id => ~ws[w].timer

\* Server s holds an open socket under id
LiveIn(s, id) == id \in DOMAIN sockets[s] /\ ws[sockets[s][id]].state = "open"

\* No handler is between two of its awaits
Quiescent ==
    /\ cleanups = {}
    /\ \A q \in Reqs : auth[q].pc \in {"idle", "done"}
    /\ \A w \in Socks : ws[w].pc # "lookup"

\* C19: every open record with serverId = S has an open socket in S's table
\* if and only if it is connected, and every socket in a server's table belongs
\* to a record in the store.
C19_SocketIffConnected ==
    Quiescent =>
        /\ \A id \in DOMAIN connectionRecords :
               LET r == connectionRecords[id]
               IN  (r.open /\ r.serverId # NoServer) =>
                       (LiveIn(r.serverId, id) <=> r.connected # NotConnected)
        /\ \A s \in Servers : \A id \in DOMAIN sockets[s] :
               id \in DOMAIN connectionRecords

\* C20: every stored record with a tokenId has its token record in the token
\* collection, and a cleanup that completes on a stored record clears the
\* record's tokenId and removes that token record.
C20_TokenFollowsRecord ==
    /\ [](\A id \in DOMAIN connectionRecords :
             connectionRecords[id].tokenId # 0 =>
                 connectionRecords[id].tokenId \in connectionTokenRecords)
    /\ [][\A k \in cleanups :
             (Completes(k) /\ k.id \in DOMAIN connectionRecords) =>
                 /\ connectionRecords'[k.id].tokenId = 0
                 /\ connectionRecords[k.id].tokenId \notin connectionTokenRecords']_vars

\* The position of the last event of a type in a log, 0 when there is none
LastOf(log, type) ==
    LET at == {i \in DOMAIN log : log[i].type = type}
    IN  IF at = {} THEN 0 ELSE CHOOSE i \in at : \A j \in at : j <= i

\* A pong arrived after the last heartbeat callback of socket w started
PongSinceTick(w) == LastOf(evs[w], "pong") > LastOf(evs[w], "heartbeat")

\* C21: for each heartbeat tick of a connection, the alive flag the next tick
\* reads is true if and only if a pong was received between the two ticks:
\* whenever a tick has run and the next one can fire, the flag it will read is
\* set exactly when a pong arrived since the last tick.
C21_AliveIffPongSinceTick ==
    \A w \in Socks :
        (ws[w].timer /\ ws[w].tick = "idle" /\ ws[w].beats >= 1) =>
            (ws[w].record.alive <=> PongSinceTick(w))

\* C22: the heartbeat is advisory: a tick never closes the socket, never changes
\* the socket table, never stops a timer and never changes the open or connected
\* field of a stored record; and only a cleanup (called by the close handler or
\* directly) takes a stored connected record from open to closed.
C22_HeartbeatAdvisory ==
    [][/\ \A w \in Socks :
              (Heartbeat(w) \/ HeartbeatResume(w)) =>
                  /\ ws'[w].state = ws[w].state
                  /\ \A v \in Socks : ws'[v].timer = ws[v].timer
                  /\ sockets' = sockets
                  /\ heartbeats' = heartbeats
                  /\ \A id \in DOMAIN connectionRecords :
                         /\ connectionRecords'[id].open = connectionRecords[id].open
                         /\ connectionRecords'[id].connected =
                                connectionRecords[id].connected
       /\ \A id \in DOMAIN connectionRecords \cap DOMAIN connectionRecords' :
              (/\ connectionRecords[id].open
               /\ connectionRecords[id].connected # NotConnected
               /\ ~connectionRecords'[id].open) =>
                  \E k \in cleanups : k.id = id /\ Completes(k)]_vars

\* C23: when the first heartbeat interval has elapsed after the upgrade with no
\* pong, the stored record shows alive = false; a pong then makes the stored
\* record show alive = true with its lastHeartbeat field set to the instant of
\* the pong; neither step disconnects the session.
C23_MissThenRecovery ==
    /\ [](\A w \in Socks :
             (/\ ws[w].beats >= 1
              /\ ws[w].tick = "idle"
              /\ Count(evs[w], "pong") = 0
              /\ ws[w].record.id \in DOMAIN connectionRecords) =>
                 ~connectionRecords[ws[w].record.id].alive)
    /\ [][\A w \in Socks :
             (Pong(w) /\ ws[w].record.id \in DOMAIN connectionRecords) =>
                 LET r == connectionRecords'[ws[w].record.id]
                 IN  /\ r.alive
                     /\ "lastHeartbeat" \in DOMAIN r
                     /\ r.lastHeartbeat = now
                     /\ r.open = connectionRecords[ws[w].record.id].open
                     /\ ws'[w].state = ws[w].state
                     /\ sockets' = sockets]_vars

\* The events of one type in a log, in the log's order
RECURSIVE OfType(_, _)
OfType(log, type) ==
    IF log = <<>> THEN <<>>
    ELSE IF Head(log).type = type THEN <<Head(log)>> \o OfType(Tail(log), type)
    ELSE OfType(Tail(log), type)

\* C24: on each of the channels authenticate, connect and disconnect the
\* subscribers are invoked in registration order, and one that throws prevents
\* neither the subscribers registered after it nor the rest of the step: an
\* upgrade that finds its record invokes every authenticate subscriber, starts
\* the heartbeat, sends the promotion frame (on a socket still open) and invokes
\* every connect subscriber; a close event invokes every disconnect subscriber
\* and calls cleanup.
C24_SubscribersAllRun ==
    [][\A w \in Socks :
          /\ (LookupDone(w) /\ findById(subject(ws[w].token)).id # 0) =>
                 /\ OfType(evs'[w], "authenticate") =
                        Invoked("authenticate", Len(callbacks.authenticate))
                 /\ ws'[w].timer
                 /\ ws[w].state = "open" => Count(evs'[w], "accepted") = 1
                 /\ ws[w].state = "open" =>
                        OfType(evs'[w], "connect") =
                            Invoked("connect", Len(callbacks.connect))
          /\ (ws[w].wired /\ ws[w].state # "closed" /\ ws'[w].state = "closed") =>
                 /\ OfType(evs'[w], "disconnect") =
                        Invoked("disconnect", Len(callbacks.disconnect))
                 /\ \E k \in cleanups' : k.w = w /\ ~k.closed]_vars

\* C25: on(name, handler) for a known channel appends the handler to that
\* channel's list; off(name, handler) for a known channel removes the handler
\* and leaves the other subscribers and channels as they were; with an unknown
\* name both leave every list unchanged; none of the calls raises an error.
C25_OnAppendsOffRemoves ==
    [][\A eventName \in EventNames, handler \in Handlers :
          /\ On(eventName, handler) =>
                 /\ ~bus'.threw
                 /\ callbacks' =
                        IF eventName \in Channels
                        THEN [callbacks EXCEPT ![eventName] = Append(@, handler)]
                        ELSE callbacks
          /\ Off(eventName, handler) =>
                 /\ ~bus'.threw
                 /\ callbacks' =
                        IF eventName \in Channels
                        THEN [callbacks EXCEPT ![eventName] = Without(@, handler)]
                        ELSE callbacks]_vars

\* The part of a type string before its first dot, and the remainder after it
BeforeDot(text) ==
    SubSeq(text, 1, (CHOOSE i \in DOMAIN text :
                        text[i] = "." /\ \A j \in 1..(i - 1) : text[j] # ".") - 1)

AfterDot(text) == SubSeq(text, Len(BeforeDot(text)) + 2, Len(text))

\* The frame is JSON for an object whose type is a string of the form
\* provider.message, the provider is registered and has a handler for the message
PassesValidation(frame) ==
    /\ frame.json = "object"
    /\ frame.type.kind = "string"
    /\ match(frame.type.text).matched
    /\ BeforeDot(frame.type.text) \in DOMAIN providers
    /\ AfterDot(frame.type.text) \in
           DOMAIN providers[BeforeDot(frame.type.text)].messages

\* C26: every inbound frame that passes validation is delivered exactly once, to
\* the one handler providers[provider].messages[message], provider being the part
\* of type before its first dot and message the remainder, with the arguments
\* (parsed message, socket, record, coreEnv).
C26_ValidFrameDeliveredOnce ==
    [][\A w \in Socks, throws \in BOOLEAN :
          (Message(w, throws) /\ PassesValidation(inbox[w].frame)) =>
              LET frame == inbox[w].frame
              IN  inbox'[w].last.calls =
                      <<[h |-> providers[BeforeDot(frame.type.text)]
                                   .messages[AfterDot(frame.type.text)],
                         args |-> <<frame, w, ws[w].record, CoreEnv>>]>>]_vars

\* A frame whose type has two dots was delivered to the handler of "p.p" of
\* provider "p", with the record of the promoted session
C26_Witness ==
    /\ inbox[1].last.calls # <<>>
    /\ inbox[1].last.calls[1].h = "hSub"
    /\ inbox[1].last.calls[1].args[1].type.text = <<"p", ".", "p", ".", "p">>
    /\ inbox[1].last.calls[1].args[3].serverId = "srvA"

\* C27: a frame that does not pass validation (not JSON, no type, a type that is
\* no string, a type not of the form provider.message, an unregistered provider,
\* no handler for the message) is dropped: no handler is invoked, nothing else
\* changes, no error escapes the dispatcher and the socket stays open, its
\* listener wired for later frames.
C27_InvalidFrameDropped ==
    [][\A w \in Socks, throws \in BOOLEAN :
          (Message(w, throws) /\ ~PassesValidation(inbox[w].frame)) =>
              /\ inbox'[w].last.calls = <<>>
              /\ ~inbox'[w].last.escaped
              /\ ws' = ws
              /\ connectionRecords' = connectionRecords
              /\ sockets' = sockets
              /\ heartbeats' = heartbeats]_vars

\* C28: an exception thrown by a message handler is caught by the dispatcher: it
\* does not leave the listener, the socket stays open with its listener wired for
\* later frames, and the record, the socket table and the heartbeat timer are
\* unchanged.
C28_HandlerExceptionCaught ==
    [][\A w \in Socks :
          (Message(w, TRUE) /\ PassesValidation(inbox[w].frame)) =>
              /\ inbox'[w].last.caught
              /\ ~inbox'[w].last.escaped
              /\ ws' = ws
              /\ connectionRecords' = connectionRecords
              /\ sockets' = sockets
              /\ heartbeats' = heartbeats]_vars

\* A handler threw on one frame and the next frame was delivered
C28_Witness ==
    /\ inbox[1].n = 2
    /\ inbox[1].prev = "caught"
    /\ Kind(inbox[1].last) = "delivered"
    /\ ws[1].state = "open"

\* C29: when the onShutdown hook of a server completes, every session that was
\* live on it has its socket closed (or closing), its heartbeat timer stopped and
\* its record stored with open = false and alive = false.
C29_ShutdownClosesEverySession ==
    [][\A s \in Servers :
          onShutdown(s) =>
              \A id \in DOMAIN sockets[s] :
                  LET w == sockets[s][id]
                  IN  ws[w].state = "open" =>
                          /\ ws'[w].state \in {"closing", "closed"}
                          /\ ~ws'[w].timer
                          /\ id \in DOMAIN connectionRecords' =>
                                 /\ ~connectionRecords'[id].open
                                 /\ ~connectionRecords'[id].alive]_vars

\* C30: the closed state is terminal: a record stored with open = false (only
\* cleanup stores that) is never stored with open = true or alive = true again.
C30_ClosedIsTerminal ==
    [][\A id \in DOMAIN connectionRecords \cap DOMAIN connectionRecords' :
          ~connectionRecords[id].open =>
              /\ ~connectionRecords'[id].open
              /\ ~connectionRecords'[id].alive]_vars

\* C35: an upgrade whose token verifies but whose subject has no record in the
\* store is a protocol fault: the socket is closed, no record is inserted or
\* changed, no socket is registered, no timer is started and no subscriber is
\* invoked.
C35_MissingRecordClosesSocket ==
    [][\A w \in Socks :
          (LookupDone(w) /\ findById(subject(ws[w].token)).id = 0) =>
              /\ ws'[w].state \in {"closing", "closed"}
              /\ connectionRecords' = connectionRecords
              /\ sockets' = sockets
              /\ heartbeats' = heartbeats
              /\ ~ws'[w].timer
              /\ evs'[w] = evs[w]]_vars

\* C36: a POST / without an Authorization header gets exactly one response, 400,
\* and processing stops there: nothing else is answered and the handler does not
\* go on to the identity verifier, the record lookup or the provisioning.
C36_NoTokenOneResponse ==
    \A q \in Reqs :
        (auth[q].pc # "idle" /\ auth[q].idtoken = "none") =>
            /\ auth[q].res = <<400>>
            /\ auth[q].pc = "done"
            /\ auth[q].newId = 0

\* The socket of w is closed and what the upgrade set up for it is gone: no
\* timer of it runs and its record is not stored as an open, connected, alive one
CleanedUp(w) ==
    /\ ~ws[w].timer
    /\ ws[w].record.id \in DOMAIN connectionRecords =>
           LET r == connectionRecords[ws[w].record.id]
           IN  ~(r.open /\ r.connected # NotConnected /\ r.alive)

\* C37: a socket that closes while ep_wsConnect is still awaiting the token
\* verification or the record lookup, before the close handler is wired, is
\* still cleaned up eventually: its record does not stay stored as open,
\* connected and alive, and no heartbeat timer keeps running for it.
C37_EarlyCloseCleanedUp ==
    \A w \in Socks :
        (ws[w].state = "closed" /\ ws[w].pc # "lookup") ~> CleanedUp(w)

\* C34: what authenticate subscribers write on the record object during an
\* upgrade is never written to the store: at any time a stored record holds only
\* the fields of its issuance, of the upgrade, of heartbeat and of cleanup.
C34_SubscriberWritesNotStored ==
    \A id \in DOMAIN connectionRecords : connectionRecords[id].extra = ""

\* The handlers of the calls a channel's subscribers got for a socket, in order
CalledOn(sock, channel) ==
    LET log == SelectSeq(sock.calls, LAMBDA e : e.channel = channel)
    IN  [i \in DOMAIN log |-> log[i].h]

\* C31: on every close event of a connector's WebSocket all disconnect
\* subscribers are run in registration order, a throwing one not blocking the
\* rest, and then exactly one connect() is scheduled after
\* reconnectIntervalSeconds (30 s when none was given) if alwaysReconnect is
\* true, and none if it is false.
C31_CloseNotifiesThenReconnects ==
    [][\A k \in Attempts, t \in 0..Len(Registered) :
          Close(k, t) =>
              /\ CalledOn(conn'.socks[k], "disconnect") =
                     CalledOn(conn.socks[k], "disconnect") \o conn.handlers.disconnect
              /\ conn'.timers =
                     IF conn.alwaysReconnect
                     THEN Append(conn.timers,
                                 IF conn.reconnectIntervalSeconds = Undefined
                                 THEN 30 * 1000
                                 ELSE conn.reconnectIntervalSeconds * 1000)
                     ELSE conn.timers]_vars

\* C32: disconnect(reason) sets alwaysReconnect to false; on an OPEN socket it
\* sends the frame {type: 'client.state', state: 'stopped.' + reason}, closes the
\* socket and invokes every disconnect subscriber before it returns; on a socket
\* that is not OPEN it sends nothing and invokes no subscriber.
C32_DisconnectStopsAndNotifies ==
    [][\A e \in {"user"}, t \in 0..Len(Registered) :
          Disconnect(e, t) =>
              /\ ~conn'.alwaysReconnect
              /\ IF conn.ws # 0 /\ conn.socks[conn.ws].state = "open"
                 THEN /\ conn'.socks[conn.ws].frames =
                             Append(conn.socks[conn.ws].frames,
                                    [type |-> "client.state",
                                     state |-> <<"stopped", e>>])
                      /\ conn'.socks[conn.ws].state \in {"closing", "closed"}
                      /\ CalledOn(conn'.socks[conn.ws], "disconnect") =
                             CalledOn(conn.socks[conn.ws], "disconnect")
                                 \o conn.handlers.disconnect
                 ELSE conn'.socks = conn.socks]_vars

\* C33: when the token request of connect() is answered with a status other
\* than 200 the attempt is aborted: no WebSocket is created, no subscriber is
\* invoked and no retry is scheduled, also when alwaysReconnect is true.
C33_RejectedRequestAborts ==
    [][\A r \in Attempts :
          (conn.reqs[r].state = "sent" /\ conn'.reqs[r].state = "done"
               /\ conn'.reqs[r].status # 200) =>
              /\ conn'.socks = conn.socks
              /\ conn'.ws = conn.ws
              /\ conn'.timers = conn.timers
              /\ \A k \in Attempts \ {r} : conn'.reqs[k] = conn.reqs[k]]_vars

\* A connector set to reconnect whose request was answered 403: the attempt
\* ended with no socket, no timer and no further request
C33_Witness ==
    /\ conn.alwaysReconnect
    /\ conn.reqs[1] = [state |-> "done", status |-> 403]
    /\ conn.socks[1].state = "none"
    /\ conn.timers = <<>>
    /\ conn.reqs[2].state = "none"

\* C38: for each WebSocket session of the connector that has ended, every
\* registered disconnect subscriber was invoked exactly once, whether the server
\* closed the socket or the client called disconnect() and the close event
\* followed.
C38_DisconnectNotifiedOnce ==
    \A k \in Attempts :
        conn.socks[k].state = "closed" =>
            CalledOn(conn.socks[k], "disconnect") = conn.handlers.disconnect

\* C39: once disconnect(reason) was called the connector starts no connection
\* attempt on its own, neither a token request nor a WebSocket, until connect()
\* is called.
C39_NoAttemptAfterDisconnect ==
    [][(conn.last = "disconnect" /\ conn'.last = "disconnect") =>
          \A k \in Attempts :
              /\ conn'.reqs[k].state = "sent" => conn.reqs[k].state = "sent"
              /\ conn.socks[k].state = "none" => conn'.socks[k].state = "none"]_vars

\* C40: a Connection never has more than one WebSocket that is connecting or
\* open, and the socket send() and disconnect() use is the live one.
C40_OneLiveSocket ==
    LET live == {k \in Attempts : conn.socks[k].state \in {"connecting", "open"}}
    IN  /\ Cardinality(live) <= 1
        /\ live # {} => conn.ws \in live

====
